---------------------------- MODULE Spec2Model ----------------------------
(***************************************************************************)
(* Model of cpp/src/arrow/python/decimal.cc: inference of the precision    *)
(* and scale of Python decimals (InferDecimalPrecisionAndScale), the       *)
(* widening accumulator DecimalMetadata, and the conversion of a decimal   *)
(* to a Decimal128 against an Arrow decimal type                            *)
(* (DecimalFromPythonDecimal).                                              *)
(***************************************************************************)
EXTENDS Integers, Sequences, FiniteSets, TLC

(***************************************************************************)
(* Bounds of the model.                                                    *)
(***************************************************************************)
\* longest log of Update(int32_t, int32_t) calls that is explored
MaxCalls == 3
\* largest precision suggested to Update(int32_t, int32_t)
MaxPrec == 3
\* largest scale suggested to Update(int32_t, int32_t)
MaxScale == 3
\* largest number of digits of a decimal's as_tuple().digits
MaxDigits == 5
\* largest magnitude of a decimal's as_tuple().exponent
MaxExp == 5
\* longest str(python_decimal) that is converted
MaxTextLen == 4
\* largest precision of the Arrow decimal type converted against
MaxTypePrec == 5
\* largest scale of the Arrow decimal type converted against
MaxTypeScale == 3

(***************************************************************************)
(* Program constants.                                                      *)
(***************************************************************************)
\* std::numeric_limits<int32_t>::min(), the "unset" sentinel
kInt32Min == -2147483647 - 1

VARIABLES
    precision_,      \* DecimalMetadata::precision_
    scale_,          \* DecimalMetadata::scale_
    calls,           \* log of the pairs a caller passed to Update(int32_t, int32_t) directly
    object,          \* the PyObject* argument: of the latest Update(PyObject*) call, or of the inferencer
    inferred,        \* whether the latest call ran InferDecimalPrecisionAndScale
    out,             \* the *precision and *scale written by InferDecimalPrecisionAndScale
    status,          \* Status returned by the latest call
    text,            \* str(python_decimal), the characters DecimalFromPythonDecimal parses
    arrow_type,      \* the DecimalType converted against: its precision() and scale()
    rounding,        \* how Decimal128::Rescale divides when it reduces the scale
    decimal128,      \* *out of DecimalFromPythonDecimal, with what the call did
    pc               \* which entry point is driven, and whether a pure function has returned

vars == <<precision_, scale_, calls, object, inferred, out, status,
          text, arrow_type, rounding, decimal128, pc>>

\* the variables DecimalFromPythonDecimal works on
convVars == <<text, arrow_type, rounding, decimal128>>

Max(a, b) == IF a >= b THEN a ELSE b

Abs(a) == IF a < 0 THEN -a ELSE a

\* DecimalMetadata::DecimalMetadata(): both fields hold the int32 minimum
DecimalMetadata == [precision |-> kInt32Min, scale |-> kInt32Min]

\* a PyObject that no call has passed yet
NoObject == [is_decimal |-> FALSE, is_nan |-> FALSE, num_digits |-> 0, exponent |-> 0]

\* the locals precision and scale of Update(PyObject*) before the inferencer writes them
NoOut == [precision |-> 0, scale |-> 0]

\* a Decimal128 that no conversion has written
NoDecimal128 == [value |-> 0, parsed |-> FALSE, inferred_precision |-> 0,
                 inferred_scale |-> 0, rescaled |-> FALSE]

\* the state of a run that converts nothing
NoConversion ==
    /\ text = <<>>
    /\ arrow_type = [precision |-> 1, scale |-> 0]
    /\ rounding = "truncate"
    /\ decimal128 = NoDecimal128

(***************************************************************************)
(* DecimalMetadata::Update(int32_t, int32_t)                               *)
(***************************************************************************)
\* deviation: the precision is overwritten instead of widened
Update_Overwrite(meta, suggested_precision, suggested_scale) ==
    [precision |-> suggested_precision,
     scale |-> Max(meta.scale, suggested_scale)]

Update(meta, suggested_precision, suggested_scale) ==
    LET current_precision == meta.precision
        precision1 == Max(current_precision, suggested_precision)
        current_scale == meta.scale
        scale1 == Max(current_scale, suggested_scale)
    IN  [precision |-> IF suggested_scale = 0 /\ suggested_precision > current_precision
                       THEN precision1 + scale1
                       ELSE precision1,
         scale |-> scale1]

\* the metadata after the calls of a log, applied in order from the unset metadata
RECURSIVE UpdateAll(_)
UpdateAll(log) ==
    IF log = <<>> THEN DecimalMetadata
    ELSE LET last == log[Len(log)]
         IN  Update(UpdateAll(SubSeq(log, 1, Len(log) - 1)), last.precision, last.scale)

\* well-formed suggestions: at least one digit, of which 0..precision are fractional
Suggestions == {s \in [precision : 1..MaxPrec, scale : 0..MaxScale] : s.scale <= s.precision}

\* every int32 pair a caller may pass, the sentinel included
AnySuggestions == [precision : {kInt32Min} \cup (-1..MaxPrec),
                   scale : {kInt32Min} \cup (-1..MaxScale)]

InitMeta ==
    /\ precision_ = DecimalMetadata.precision
    /\ scale_ = DecimalMetadata.scale
    /\ calls = <<>>
    /\ object = NoObject
    /\ inferred = FALSE
    /\ out = NoOut
    /\ status = "OK"
    /\ NoConversion
    /\ pc = "meta"

UpdateInt(s) ==
    LET new == Update([precision |-> precision_, scale |-> scale_], s.precision, s.scale)
    IN  /\ Len(calls) < MaxCalls
        /\ precision_' = new.precision
        /\ scale_' = new.scale
        /\ calls' = Append(calls, s)
        /\ status' = "OK"
        /\ UNCHANGED <<object, inferred, out, pc, convVars>>

\* a caller folding well-formed (precision, scale) pairs into one metadata
NextUpdate == \E s \in Suggestions : UpdateInt(s)

SpecUpdate == InitMeta /\ [][NextUpdate]_vars

\* a caller passing arbitrary int32 pairs
NextUpdateAny == \E s \in AnySuggestions : UpdateInt(s)

SpecUpdateAny == InitMeta /\ [][NextUpdateAny]_vars

(***************************************************************************)
(* Properties of DecimalMetadata::Update(int32_t, int32_t)                 *)
(***************************************************************************)
\* the orders in which the calls of a log can be replayed
Reorderings(log) ==
    {[i \in 1..Len(log) |-> log[f[i]]] :
        f \in {g \in [1..Len(log) -> 1..Len(log)] :
                  \A i, j \in 1..Len(log) : g[i] = g[j] => i = j}}

\* C1: after any sequence of well-formed Update(p_i, s_i) calls from the unset
\* metadata the held pair is wide enough for every absorbed suggestion:
\* scale >= s_i and precision - scale >= p_i - s_i for every i.
C1_WideEnoughForAll ==
    \A i \in 1..Len(calls) :
        /\ scale_ >= calls[i].scale
        /\ precision_ - scale_ >= calls[i].precision - calls[i].scale

\* C2: the final (precision, scale) does not depend on the order of the updates:
\* replaying the absorbed suggestions in any other order from the unset metadata
\* yields the pair that is held.
C2_OrderIndependent ==
    \A log \in Reorderings(calls) :
        UpdateAll(log) = [precision |-> precision_, scale |-> scale_]

\* C3: every Update call leaves the stored precision and the stored scale at
\* least as large as they were before the call, the first call on the unset
\* sentinel included.
C3_Monotone == [][precision_' >= precision_ /\ scale_' >= scale_]_vars

\* C3 witness: the first call set the metadata and a later call widened both fields
C3_Witness ==
    /\ Len(calls) >= 2
    /\ UpdateAll(SubSeq(calls, 1, 1)).precision > kInt32Min
    /\ precision_ > UpdateAll(SubSeq(calls, 1, 1)).precision
    /\ scale_ > UpdateAll(SubSeq(calls, 1, 1)).scale

(***************************************************************************)
(* InferDecimalPrecisionAndScale, on the num_digits and exponent that      *)
(* as_tuple() reports                                                      *)
(***************************************************************************)
InferDecimalPrecisionAndScale(num_digits, exponent) ==
    LET abs_exponent == Abs(exponent)
        leading_or_trailing == num_digits <= abs_exponent
        num_additional_zeros ==
            IF leading_or_trailing
            THEN (IF exponent < 0 THEN abs_exponent - num_digits ELSE exponent)
            ELSE 0
        scale == IF leading_or_trailing
                 THEN (IF exponent < 0 THEN 1 ELSE 0) * (-exponent)
                 ELSE -exponent
    IN  [precision |-> num_digits + num_additional_zeros, scale |-> scale]

\* decimal.Decimal instances: as_tuple().digits is never empty
Decimals == [is_decimal : {TRUE}, is_nan : BOOLEAN,
             num_digits : 1..MaxDigits, exponent : (-MaxExp)..MaxExp]

\* an object that is not a decimal.Decimal
NonDecimal == [is_decimal |-> FALSE, is_nan |-> FALSE, num_digits |-> 1, exponent |-> 0]

\* the (digit_count, exponent) pairs handed to the inferencer, digit_count 0 included
InferInputs == [is_decimal : {TRUE}, is_nan : {FALSE},
                num_digits : 0..MaxDigits, exponent : (-MaxExp)..MaxExp]

InitInfer ==
    /\ precision_ = DecimalMetadata.precision
    /\ scale_ = DecimalMetadata.scale
    /\ calls = <<>>
    /\ object \in InferInputs
    /\ inferred = FALSE
    /\ out = NoOut
    /\ status = "OK"
    /\ NoConversion
    /\ pc = "infer"

Infer ==
    /\ pc = "infer"
    /\ out' = InferDecimalPrecisionAndScale(object.num_digits, object.exponent)
    /\ inferred' = TRUE
    /\ status' = "OK"
    /\ pc' = "inferred"
    /\ UNCHANGED <<precision_, scale_, calls, object, convVars>>

NextInfer == Infer

SpecInfer == InitInfer /\ [][NextInfer]_vars

(***************************************************************************)
(* DecimalMetadata::Update on a PyObject pointer                           *)
(***************************************************************************)
\* deviation: the not-a-number test is missing
UpdateObject_NoNanCheck(meta, obj) ==
    IF ~obj.is_decimal
    THEN [meta |-> meta, out |-> NoOut, inferred |-> FALSE, status |-> "OK"]
    ELSE LET o == InferDecimalPrecisionAndScale(obj.num_digits, obj.exponent)
         IN  [meta |-> Update(meta, o.precision, o.scale), out |-> o,
              inferred |-> TRUE, status |-> "OK"]

UpdateObject(meta, obj) ==
    IF ~obj.is_decimal \/ obj.is_nan
    THEN [meta |-> meta, out |-> NoOut, inferred |-> FALSE, status |-> "OK"]
    ELSE LET o == InferDecimalPrecisionAndScale(obj.num_digits, obj.exponent)
         IN  [meta |-> Update(meta, o.precision, o.scale), out |-> o,
              inferred |-> TRUE, status |-> "OK"]

UpdateObj(obj) ==
    LET r == UpdateObject([precision |-> precision_, scale |-> scale_], obj)
    IN  /\ precision_' = r.meta.precision
        /\ scale_' = r.meta.scale
        /\ object' = obj
        /\ inferred' = r.inferred
        /\ out' = r.out
        /\ status' = r.status
        /\ UNCHANGED <<calls, pc, convVars>>

\* an inference pass over a column of Python objects
NextObject == \E obj \in Decimals \cup {NonDecimal} : UpdateObj(obj)

SpecObject == InitMeta /\ [][NextObject]_vars

(***************************************************************************)
(* Properties of InferDecimalPrecisionAndScale                             *)
(***************************************************************************)
\* C5: for every digit_count >= 0 and every exponent the inferencer returns
\* precision >= 1 and scale >= 0; when digit_count > |exponent| the scale is
\* -exponent if exponent < 0 and 0 otherwise.
C5_InferContract ==
    pc = "inferred" =>
        /\ out.precision >= 1
        /\ out.scale >= 0
        /\ object.num_digits > Abs(object.exponent) =>
               out.scale = (IF object.exponent < 0 THEN -object.exponent ELSE 0)

\* C6: for every value with digit_count >= 1 and every exponent the inferencer
\* returns the minimal exact pair: scale = max(0, -exponent) and
\* precision = max(digit_count + max(exponent, 0), scale).
C6_InferMinimalPair ==
    (pc = "inferred" /\ object.num_digits >= 1) =>
        /\ out.scale = Max(0, -object.exponent)
        /\ out.precision = Max(object.num_digits + Max(object.exponent, 0), out.scale)

(***************************************************************************)
(* Properties of DecimalMetadata::Update on a PyObject pointer             *)
(***************************************************************************)
\* C4: Update(object) on a value whose is_nan is true returns OK and leaves
\* precision and scale unchanged, whatever the metadata held, and does not run
\* the inferencer.
C4_NanLeavesMetadata ==
    [][(object'.is_decimal /\ object'.is_nan) =>
           /\ precision_' = precision_
           /\ scale_' = scale_
           /\ status' = "OK"
           /\ ~inferred']_vars

\* C4 witness: a not-a-number value was passed to a metadata that earlier values had set
C4_Witness ==
    /\ object.is_decimal
    /\ object.is_nan
    /\ ~inferred
    /\ precision_ >= 1

\* C9: once set, the metadata has precision >= 1 and scale >= 0: after any
\* non-empty sequence of Update(object) calls on decimals that are not NaN
\* (digit_count >= 1, any exponent) from the unset metadata.
C9_SetMetadataInRange ==
    precision_ # kInt32Min => (precision_ >= 1 /\ scale_ >= 0)

(***************************************************************************)
(* Decimal128::FromString and Decimal128::Rescale (arrow/util/decimal):    *)
(* the literal parser and the rescale primitive the conversion calls       *)
(***************************************************************************)
Digits == {"0", "1", "5"}

Chars == Digits \cup {"-", "."}

DigitValue(c) == CASE c = "0" -> 0 [] c = "1" -> 1 [] c = "5" -> 5

Texts == UNION {[1..n -> Chars] : n \in 0..MaxTextLen}

RECURSIVE Pow10(_)
Pow10(n) == IF n <= 0 THEN 1 ELSE 10 * Pow10(n - 1)

\* the integer written by a run of digit characters
RECURSIVE DigitsValue(_)
DigitsValue(s) ==
    IF s = <<>> THEN 0
    ELSE 10 * DigitsValue(SubSeq(s, 1, Len(s) - 1)) + DigitValue(s[Len(s)])

RECURSIVE StripLeadingZeros(_)
StripLeadingZeros(s) ==
    IF s # <<>> /\ s[1] = "0" THEN StripLeadingZeros(Tail(s)) ELSE s

AllDigits(s) == \A i \in 1..Len(s) : s[i] \in Digits

\* parse(text) -> (int128, precision, scale): an optional sign, the whole digits
\* and, after a decimal point, the fractional digits
FromString(str) ==
    LET negative == str # <<>> /\ str[1] = "-"
        body == IF negative THEN Tail(str) ELSE str
        dots == {i \in 1..Len(body) : body[i] = "."}
        dot == IF dots = {} THEN 0 ELSE CHOOSE i \in dots : \A j \in dots : i <= j
        whole == IF dot = 0 THEN body ELSE SubSeq(body, 1, dot - 1)
        frac == IF dot = 0 THEN <<>> ELSE SubSeq(body, dot + 1, Len(body))
        valid == /\ whole # <<>>
                 /\ AllDigits(whole)
                 /\ AllDigits(frac)
                 /\ dot # 0 => frac # <<>>
        magnitude == DigitsValue(whole \o frac)
    IN  IF ~valid
        THEN [status |-> "MalformedInput", value |-> 0, precision |-> 0, scale |-> 0]
        ELSE [status |-> "OK",
              value |-> IF negative THEN -magnitude ELSE magnitude,
              precision |-> Max(1, Len(StripLeadingZeros(whole)) + Len(frac)),
              scale |-> Len(frac)]

\* rescale(value, from_scale, to_scale): exact multiplication when the scale
\* grows; when it shrinks, division that truncates or rounds to nearest (ties to
\* even), whichever the arithmetic in use does.  A product beyond 128 bits fails;
\* the values of this model stay below 2^31.
Rescale(value, original_scale, new_scale, policy) ==
    LET delta_scale == new_scale - original_scale
        multiplier == Pow10(Abs(delta_scale))
        quotient == Abs(value) \div multiplier
        remainder == Abs(value) % multiplier
        rounded == IF policy = "nearest"
                      /\ (2 * remainder > multiplier
                          \/ (2 * remainder = multiplier /\ quotient % 2 = 1))
                   THEN quotient + 1
                   ELSE quotient
    IN  IF delta_scale >= 0
        THEN [status |-> "OK", value |-> value * multiplier]
        ELSE [status |-> "OK", value |-> IF value < 0 THEN -rounded ELSE rounded]

(***************************************************************************)
(* DecimalFromPythonDecimal                                                *)
(***************************************************************************)
\* deviation: the parsed precision is not compared with the type's
DecimalFromPythonDecimal_NoPrecisionCheck(string, type, policy) ==
    LET parsed == FromString(string)
        inferred_precision == parsed.precision
        inferred_scale == parsed.scale
        precision == type.precision
        scale == type.scale
        rescaled == Rescale(parsed.value, inferred_scale, scale, policy)
    IN  IF parsed.status # "OK"
        THEN [status |-> parsed.status, out |-> NoDecimal128]
        ELSE IF scale # inferred_scale
        THEN [status |-> rescaled.status,
              out |-> [value |-> rescaled.value, parsed |-> TRUE,
                       inferred_precision |-> inferred_precision,
                       inferred_scale |-> inferred_scale, rescaled |-> TRUE]]
        ELSE [status |-> "OK",
              out |-> [value |-> parsed.value, parsed |-> TRUE,
                       inferred_precision |-> inferred_precision,
                       inferred_scale |-> inferred_scale, rescaled |-> FALSE]]

\* deviation: the value is returned at the parsed scale, never rescaled
DecimalFromPythonDecimal_NoRescale(string, type, policy) ==
    LET parsed == FromString(string)
        inferred_precision == parsed.precision
        inferred_scale == parsed.scale
        precision == type.precision
        unscaled == [value |-> parsed.value, parsed |-> TRUE,
                     inferred_precision |-> inferred_precision,
                     inferred_scale |-> inferred_scale, rescaled |-> FALSE]
    IN  IF parsed.status # "OK"
        THEN [status |-> parsed.status, out |-> NoDecimal128]
        ELSE IF inferred_precision > precision
        THEN [status |-> "Invalid", out |-> unscaled]
        ELSE [status |-> "OK", out |-> unscaled]

DecimalFromPythonDecimal(string, type, policy) ==
    LET parsed == FromString(string)
        inferred_precision == parsed.precision
        inferred_scale == parsed.scale
        precision == type.precision
        scale == type.scale
        unscaled == [value |-> parsed.value, parsed |-> TRUE,
                     inferred_precision |-> inferred_precision,
                     inferred_scale |-> inferred_scale, rescaled |-> FALSE]
        rescaled == Rescale(parsed.value, inferred_scale, scale, policy)
    IN  IF parsed.status # "OK"
        THEN [status |-> parsed.status, out |-> NoDecimal128]
        ELSE IF inferred_precision > precision
        THEN [status |-> "Invalid", out |-> unscaled]
        ELSE IF scale # inferred_scale
        THEN [status |-> rescaled.status,
              out |-> [unscaled EXCEPT !.value = rescaled.value, !.rescaled = TRUE]]
        ELSE [status |-> "OK", out |-> unscaled]

\* the decimal types of a column: at least one digit, of which 0..precision are fractional
DecimalTypes == {ty \in [precision : 1..MaxTypePrec, scale : 0..MaxTypeScale] :
                    ty.scale <= ty.precision}

InitConvert ==
    /\ precision_ = DecimalMetadata.precision
    /\ scale_ = DecimalMetadata.scale
    /\ calls = <<>>
    /\ object = NoObject
    /\ inferred = FALSE
    /\ out = NoOut
    /\ status = "OK"
    /\ text \in Texts
    /\ arrow_type \in DecimalTypes
    /\ rounding \in {"truncate", "nearest"}
    /\ decimal128 = NoDecimal128
    /\ pc = "convert"

Convert ==
    LET r == DecimalFromPythonDecimal(text, arrow_type, rounding)
    IN  /\ pc = "convert"
        /\ status' = r.status
        /\ decimal128' = r.out
        /\ pc' = "converted"
        /\ UNCHANGED <<precision_, scale_, calls, object, inferred, out,
                       text, arrow_type, rounding>>

NextConvert == Convert

SpecConvert == InitConvert /\ [][NextConvert]_vars

(***************************************************************************)
(* Properties of DecimalFromPythonDecimal                                  *)
(***************************************************************************)
\* the text was parsed and its precision exceeds the precision of the type
PrecisionOverflow ==
    /\ pc = "converted"
    /\ decimal128.parsed
    /\ decimal128.inferred_precision > arrow_type.precision

Converted == pc = "converted" /\ status = "OK"

\* the unscaled result at the type's scale is the number the text writes, the
\* result of a widening is the parsed value times 10^(scale - parsed scale), and
\* equal scales return the parsed value without a rescale
ExactResult ==
    LET parsed == FromString(text)
    IN  /\ decimal128.value * Pow10(parsed.scale) = parsed.value * Pow10(arrow_type.scale)
        /\ arrow_type.scale > parsed.scale =>
               decimal128.value = parsed.value * Pow10(arrow_type.scale - parsed.scale)
        /\ arrow_type.scale = parsed.scale =>
               (decimal128.value = parsed.value /\ ~decimal128.rescaled)

\* the text has no non-zero digit beyond the scale of the type
FitsScale ==
    LET parsed == FromString(text)
    IN  \/ arrow_type.scale >= parsed.scale
        \/ parsed.value % Pow10(parsed.scale - arrow_type.scale) = 0

\* C8 as stated: whenever the conversion succeeds the unscaled result times
\* 10^-scale is exactly the number the text writes; a larger type scale yields
\* parsed x 10^(scale - parsed scale), equal scales the parsed value unrescaled.
C8_RoundTrip == Converted => ExactResult

\* C8 amended: the same, for the texts that have no non-zero digit beyond the
\* scale of the type.
C8_RoundTripWithinScale == (Converted /\ FitsScale) => ExactResult

\* C8 witness: "1.5" against decimal(5, 3) is rescaled to 1500
C8_Witness ==
    /\ Converted
    /\ text = <<"1", ".", "5">>
    /\ arrow_type = [precision |-> 5, scale |-> 3]
    /\ decimal128.rescaled
    /\ decimal128.value = 1500

\* C10: whenever the conversion succeeds the unscaled result fits the precision
\* of the type, |value| < 10^precision, also after a rescale to a larger scale.
C10_ResultFitsPrecision ==
    Converted => Abs(decimal128.value) < Pow10(arrow_type.precision)

=============================================================================
